---- MODULE Spec2Model ----
(***************************************************************************)
(* Model of the boundary-tag heap allocator of src/myHeap.c.               *)
(*                                                                         *)
(* The managed region is an array of 4-byte words indexed by absolute byte *)
(* address.  Every operation of the allocator (myInit, myAlloc, myFree,    *)
(* coalesce) is one action that runs the whole C function on the words.    *)
(* The variables `call' and `pre' record the last call (name, argument,    *)
(* return value) and the program state it started from, so that the effect *)
(* of a call can be stated as a predicate on one state.                    *)
(***************************************************************************)
EXTENDS Integers, FiniteSets, Sequences, TLC

(* ----------------------------- bounds ---------------------------------- *)

\* page size of the modelled machine, in 8-byte double words
PageUnits == 4

\* number of distinct page-aligned addresses the region provider may return
MaxBases == 1

\* how far above the usable size a word of the region may grow: on a build
\* with 8-byte pointers coalesce adds to words that no later call resets, and
\* the model follows a run while they stay within the range of a header
MaxDrift == 3

(* ------------------------ program constants ---------------------------- *)

\* sizeof(blockHeader): the struct holds one int
HeaderSize == 4

\* the value of the end mark
EndMark == 1

\* the null pointer
NULL == 0

\* getpagesize()
pagesize == 8 * PageUnits

\* sizeof(blockHeader*) is 4 on an ILP32 build and 8 on an LP64 build
PointerSizes == {4, 8}

\* page-aligned addresses mmap may return
Bases == {pagesize * k : k \in 1..MaxBases}

\* arguments of myInit: non-positive sizes, sizes that need padding, a whole page
RegionSizes == {0 - 1, 0, 1, pagesize - 1, pagesize}

VARIABLES
    heapStart,       \* blockHeader *heapStart (an address, NULL before myInit)
    allocsize,       \* int allocsize
    allocated_once,  \* static int allocated_once of myInit
    mem,             \* the mapped region: word address -> int
    ptrBytes,        \* sizeof(blockHeader*) of the build
    live,            \* addresses returned by myAlloc and not yet freed
    freed,           \* addresses freed and not returned by myAlloc since
    call,            \* the last call: [op, arg, ret]
    pre,             \* the program state before the last call
    trail            \* what the last calls add up to: [kind, start, arg]

vars == <<heapStart, allocsize, allocated_once, mem, ptrBytes, live, freed, call, pre, trail>>

\* the program state (globals and region) as one record
Snapshot(hs, as, once, m, lv, fr) ==
    [heapStart |-> hs, allocsize |-> as, allocated_once |-> once,
     mem |-> m, live |-> lv, freed |-> fr]

Now == Snapshot(heapStart, allocsize, allocated_once, mem, live, freed)

\* the last calls are no sequence that is followed
NoTrail == [kind |-> "none", start |-> <<>>, arg |-> 0]

(* --------------------------- block layout ------------------------------ *)

\* size_status - size_status % 8
BlockSize(w) == w - (w % 8)

\* bit 0 of a header
ABit(w) == w % 2

\* bit 1 of a header
PBit(w) == (w \div 2) % 2

(* ------------------------- reading the block list ---------------------- *)

\* the forward walk of dispMem: the addresses visited from `a', the last one
\* being where the walk stops (the end mark, or a word that cannot be a header)
RECURSIVE Walk(_, _)
Walk(m, a) ==
    IF a \notin DOMAIN m THEN <<a>>
    ELSE IF m[a] = EndMark \/ BlockSize(m[a]) <= 0 THEN <<a>>
    ELSE <<a>> \o Walk(m, a + BlockSize(m[a]))

\* the header addresses of the blocks of region m, in address order
Blocks(m, hs) == LET w == Walk(m, hs) IN SubSeq(w, 1, Len(w) - 1)

\* where the walk of region m stops
WalkEnd(m, hs) == LET w == Walk(m, hs) IN w[Len(w)]

\* the set of header addresses of region m
BlockSet(m, hs) == LET bs == Blocks(m, hs) IN {bs[i] : i \in 1..Len(bs)}

RECURSIVE SumSizes(_, _)
SumSizes(m, bs) ==
    IF bs = <<>> THEN 0 ELSE BlockSize(m[Head(bs)]) + SumSizes(m, Tail(bs))

\* region m has two address-adjacent free blocks
HasFreePair(m, hs) ==
    LET bs == Blocks(m, hs)
    IN  \E i \in 1..(Len(bs) - 1) : ABit(m[bs[i]]) = 0 /\ ABit(m[bs[i + 1]]) = 0

\* region m has a run of adjacent free blocks whose sizes add up to at least
\* `need'
HasFreeRun(m, hs, need) ==
    LET bs == Blocks(m, hs)
    IN  \E i \in 1..Len(bs), j \in 1..Len(bs) :
            /\ i <= j
            /\ \A k \in i..j : ABit(m[bs[k]]) = 0
            /\ SumSizes(m, SubSeq(bs, i, j)) >= need

(* ------------------------------ call trail ----------------------------- *)

\* the trail after myAlloc(size), which needs `need' bytes, returned ret on
\* region m: "retried" when the same request failed, coalesce followed and this
\* is the request again, "failed" when a positive request failed on a region
\* with a large enough run of adjacent free blocks, with that region
AllocTrail(m, size, need, ret) ==
    IF trail.kind = "merged" /\ trail.arg = size
    THEN [kind |-> "retried", start |-> trail.start, arg |-> size]
    ELSE IF ret = 0 /\ size > 0 /\ HasFreeRun(m, heapStart, need)
    THEN [kind |-> "failed", start |-> m, arg |-> size]
    ELSE NoTrail

\* the trail after myFree(ptr) returned ret: "freed" when the call before it
\* was the myAlloc that returned ptr, on a region without two adjacent free
\* blocks, with that region
FreeTrail(ptr, ret) ==
    IF /\ ret = 0
       /\ call.op = "myAlloc"
       /\ call.ret = ptr
       /\ ~HasFreePair(pre.mem, heapStart)
    THEN [kind |-> "freed", start |-> pre.mem, arg |-> ptr]
    ELSE NoTrail

\* the trail after coalesce: "trip" when it ends myAlloc, myFree, coalesce,
\* "merged" when it follows a failed request, "twice" when the call before it
\* was coalesce as well, with the region before that first coalesce
CoalesceTrail ==
    IF trail.kind = "freed"
    THEN [kind |-> "trip", start |-> trail.start, arg |-> trail.arg]
    ELSE IF trail.kind = "failed"
    THEN [kind |-> "merged", start |-> trail.start, arg |-> trail.arg]
    ELSE IF call.op = "coalesce"
    THEN [kind |-> "twice", start |-> pre.mem, arg |-> 0]
    ELSE NoTrail

(* ------------------------------ myInit --------------------------------- *)

\* padsize: padding that rounds sizeOfRegion up to a multiple of pagesize
PadSize(sizeOfRegion) == (pagesize - (sizeOfRegion % pagesize)) % pagesize

\* the word addresses of a zero-filled mapping of `bytes' bytes at `base'
MapRegion(base, bytes) == [a \in {base + 4 * i : i \in 0..((bytes \div 4) - 1)} |-> 0]

\* the region after myInit carved it: end mark, header with p-bit, footer
InitRegion(base, usable) ==
    LET hs == base + HeaderSize
        m0 == MapRegion(base, usable + 8)
        m1 == [m0 EXCEPT ![hs + usable] = EndMark]
        m2 == [m1 EXCEPT ![hs] = usable]
        m3 == [m2 EXCEPT ![hs] = @ + 2]
    IN  [m3 EXCEPT ![hs + usable - 4] = usable]

\* outcomes of the region provider: open("/dev/zero") and mmap
Providers == {"ok", "open_fails", "mmap_fails"}

\* the provider's outcome and the address of the mapping are drawn where the
\* code reaches open and mmap
myInit(sizeOfRegion) ==
    /\ pre' = Now
    /\ trail' = NoTrail
    /\ UNCHANGED <<ptrBytes, live, freed>>
    /\ IF allocated_once # 0 \/ sizeOfRegion <= 0
       THEN /\ call' = [op |-> "myInit", arg |-> sizeOfRegion, ret |-> 0 - 1]
            /\ UNCHANGED <<heapStart, allocsize, allocated_once, mem>>
       ELSE \E provider \in Providers, base \in Bases :
            IF provider # "ok"
            THEN /\ allocsize' = sizeOfRegion + PadSize(sizeOfRegion)
                 /\ allocated_once' = 0
                 /\ call' = [op |-> "myInit", arg |-> sizeOfRegion, ret |-> 0 - 1]
                 /\ UNCHANGED <<heapStart, mem>>
            ELSE /\ allocated_once' = 1
                 /\ allocsize' = sizeOfRegion + PadSize(sizeOfRegion) - 8
                 /\ heapStart' = base + HeaderSize
                 /\ mem' = InitRegion(base, sizeOfRegion + PadSize(sizeOfRegion) - 8)
                 /\ call' = [op |-> "myInit", arg |-> sizeOfRegion, ret |-> 0]

(* ------------------------------ myAlloc -------------------------------- *)

\* NeededSize that rounds the payload up to 8 without adding the header
NeededSizeNoHeader(size) ==
    IF size % 8 # 0 THEN size + 8 - (size % 8) ELSE size

\* the block size for a payload of `size' bytes: add the header, round up to 8
NeededSize(size) ==
    IF (size + 4) % 8 # 0 THEN (size + 4) + 8 - ((size + 4) % 8) ELSE size + 4

\* SkipBlock with <= for <: a block of exactly the needed size is skipped
SkipBlockExact(m, current, size) ==
    \/ m[current] % 2 # 0
    \/ BlockSize(m[current]) <= size

\* whether the scan skips the block at `current'
SkipBlock(m, current, size) ==
    \/ m[current] % 2 # 0
    \/ BlockSize(m[current]) < size

\* Better with <= for <: a later block of equal size replaces the best one
BetterOrEqual(current_size, best_size) == current_size <= best_size

\* whether the block of size current_size replaces the best one found so far
Better(current_size, best_size) == current_size < best_size

\* the while loop of myAlloc: the scan from `current' to the end mark
RECURSIVE BestFit(_, _, _, _, _, _)
BestFit(m, current, size, flag, best, best_size) ==
    IF m[current] = EndMark
    THEN [flag |-> flag, best |-> best, best_size |-> best_size]
    ELSE LET current_size == BlockSize(m[current])
         IN  IF SkipBlock(m, current, size)
             THEN BestFit(m, current + current_size, size, flag, best, best_size)
             ELSE LET b1 == IF flag = 0 THEN current ELSE best
                      s1 == IF flag = 0 THEN current_size ELSE best_size
                      b2 == IF Better(current_size, s1) THEN current ELSE b1
                      s2 == IF Better(current_size, s1) THEN current_size ELSE s1
                  IN  BestFit(m, current + current_size, size, 1, b2, s2)

\* ExactFit without the update of the successor's p-bit
ExactFitNoSuccessor(m, best, best_size) == [m EXCEPT ![best] = @ + 1]

\* best_size == size: the block is taken whole
ExactFit(m, best, best_size) ==
    LET m1 == [m EXCEPT ![best] = @ + 1]
        new == best + best_size
    IN  IF m1[new] # EndMark THEN [m1 EXCEPT ![new] = @ + 2] ELSE m1

\* Split that gives the new free block the size of the whole candidate
SplitWholeSize(m, best, best_size, size) ==
    LET new == best + size
        m1 == [m EXCEPT ![best] = @ + (size - best_size + 1)]
        m2 == [m1 EXCEPT ![new] = 2 + 0 + best_size]
        new_footer == new + best_size - size - HeaderSize
    IN  [m2 EXCEPT ![new_footer] = best_size - size]

\* Split that writes the size of the whole candidate into the new footer
SplitWrongFooter(m, best, best_size, size) ==
    LET new == best + size
        m1 == [m EXCEPT ![best] = @ + (size - best_size + 1)]
        m2 == [m1 EXCEPT ![new] = 2 + 0 + (best_size - size)]
        new_footer == new + best_size - size - HeaderSize
    IN  [m2 EXCEPT ![new_footer] = best_size]

\* best_size > size: the block is split into an allocated and a free block
Split(m, best, best_size, size) ==
    LET new == best + size
        m1 == [m EXCEPT ![best] = @ + (size - best_size + 1)]
        m2 == [m1 EXCEPT ![new] = 2 + 0 + (best_size - size)]
        new_footer == new + best_size - size - HeaderSize
    IN  [m2 EXCEPT ![new_footer] = best_size - size]

\* Alloc that returns the address of the header instead of the payload
AllocReturnsHeader(m, hs, as, size) ==
    IF size <= 0 \/ size > as
    THEN [ret |-> NULL, mem |-> m]
    ELSE LET needed == NeededSize(size)
             f == BestFit(m, hs, needed, 0, NULL, 0)
         IN  IF f.flag = 0
             THEN [ret |-> NULL, mem |-> m]
             ELSE IF f.best_size = needed
             THEN [ret |-> f.best, mem |-> ExactFit(m, f.best, f.best_size)]
             ELSE [ret |-> f.best, mem |-> Split(m, f.best, f.best_size, needed)]

\* myAlloc(size) on region m: the returned address and the region afterwards
Alloc(m, hs, as, size) ==
    IF size <= 0 \/ size > as
    THEN [ret |-> NULL, mem |-> m]
    ELSE LET needed == NeededSize(size)
             f == BestFit(m, hs, needed, 0, NULL, 0)
         IN  IF f.flag = 0
             THEN [ret |-> NULL, mem |-> m]
             ELSE IF f.best_size = needed
             THEN [ret |-> f.best + HeaderSize, mem |-> ExactFit(m, f.best, f.best_size)]
             ELSE [ret |-> f.best + HeaderSize, mem |-> Split(m, f.best, f.best_size, needed)]

myAlloc(size) ==
    /\ heapStart # NULL
    /\ LET r == Alloc(mem, heapStart, allocsize, size)
       IN  /\ mem' = r.mem
           /\ live' = IF r.ret # NULL THEN live \cup {r.ret} ELSE live
           /\ freed' = freed \ {r.ret}
           /\ call' = [op |-> "myAlloc", arg |-> size, ret |-> r.ret]
           /\ trail' = AllocTrail(mem, size, NeededSize(size), r.ret)
    /\ pre' = Now
    /\ UNCHANGED <<heapStart, allocsize, allocated_once, ptrBytes>>

(* ------------------------------ myFree --------------------------------- *)

\* FreeRejects that tests bit 1 of the header instead of bit 0
FreeRejectsTestsPBit(m, hs, as, ptr) ==
    IF ptr = NULL THEN TRUE
    ELSE IF ptr % 8 # 0 THEN TRUE
    ELSE IF ptr < hs \/ ptr > hs + as THEN TRUE
    ELSE (m[ptr - HeaderSize] \div 2) % 2 = 0

\* FreeRejects without the upper bound of the range check
FreeRejectsNoUpperBound(m, hs, as, ptr) ==
    IF ptr = NULL THEN TRUE
    ELSE IF ptr % 8 # 0 THEN TRUE
    ELSE IF ptr < hs THEN TRUE
    ELSE m[ptr - HeaderSize] % 2 = 0

\* the checks of myFree that reject ptr before any write
FreeRejects(m, hs, as, ptr) ==
    IF ptr = NULL THEN TRUE
    ELSE IF ptr % 8 # 0 THEN TRUE
    ELSE IF ptr < hs \/ ptr > hs + as THEN TRUE
    ELSE m[ptr - HeaderSize] % 2 = 0

\* FreeBlock that leaves the p-bit of the successor set
FreeBlockKeepsPBit(m, header) ==
    LET m1 == [m EXCEPT ![header] = @ - 1]
        block_size == BlockSize(m1[header])
        footer == header + block_size - HeaderSize
    IN  [m1 EXCEPT ![footer] = block_size]

\* FreeBlock that writes no footer
FreeBlockNoFooter(m, header) ==
    LET m1 == [m EXCEPT ![header] = @ - 1]
        block_size == BlockSize(m1[header])
        new == header + block_size
    IN  IF m1[new] # EndMark
        THEN [m1 EXCEPT ![new] = @ - (2 * PBit(@))]
        ELSE m1

\* FreeBlock that merges the freed block with a free successor at once
FreeBlockMerges(m, header) ==
    LET m1 == [m EXCEPT ![header] = @ - 1]
        block_size == BlockSize(m1[header])
        new == header + block_size
        merged == IF m1[new] % 2 = 0 THEN block_size + BlockSize(m1[new]) ELSE block_size
        m2 == [m1 EXCEPT ![header] = @ - block_size + merged]
        m3 == IF m2[header + merged] # EndMark
              THEN [m2 EXCEPT ![header + merged] = @ - (2 * PBit(@))]
              ELSE m2
    IN  [m3 EXCEPT ![header + merged - HeaderSize] = merged]

\* the writes of a successful myFree on the block whose header is at `header'
FreeBlock(m, header) ==
    LET m1 == [m EXCEPT ![header] = @ - 1]
        block_size == BlockSize(m1[header])
        new == header + block_size
        m2 == IF m1[new] # EndMark
              THEN [m1 EXCEPT ![new] = @ - (2 * PBit(@))]
              ELSE m1
        footer == header + block_size - HeaderSize
    IN  [m2 EXCEPT ![footer] = block_size]

\* myFree(ptr) on region m: the return value and the region afterwards
Free(m, hs, as, ptr) ==
    IF FreeRejects(m, hs, as, ptr)
    THEN [ret |-> 0 - 1, mem |-> m]
    ELSE [ret |-> 0, mem |-> FreeBlock(m, ptr - HeaderSize)]

myFree(ptr) ==
    /\ heapStart # NULL
    /\ LET r == Free(mem, heapStart, allocsize, ptr)
       IN  /\ mem' = r.mem
           /\ live' = IF r.ret = 0 THEN live \ {ptr} ELSE live
           /\ freed' = IF r.ret = 0 THEN freed \cup {ptr} ELSE freed
           /\ call' = [op |-> "myFree", arg |-> ptr, ret |-> r.ret]
           /\ trail' = FreeTrail(ptr, r.ret)
    /\ pre' = Now
    /\ UNCHANGED <<heapStart, allocsize, allocated_once, ptrBytes>>

(* ------------------------------ coalesce ------------------------------- *)

\* the address coalesce takes for the footer of the block at `next'
NextFooter(next, next_size, pb) == next + next_size - pb

\* Merge that adds to the footer only and leaves the header of ptr as it was
MergeNoHeader(m, ptr, ptr_size, next, pb) ==
    LET next_size == BlockSize(m[next])
        nextFooter == NextFooter(next, next_size, pb)
    IN  [m EXCEPT ![nextFooter] = @ + ptr_size]

\* one merge of the free block at ptr with its free successor at next
Merge(m, ptr, ptr_size, next, pb) ==
    LET next_size == BlockSize(m[next])
        nextFooter == NextFooter(next, next_size, pb)
        m1 == [m EXCEPT ![ptr] = @ + next_size]
    IN  [m1 EXCEPT ![nextFooter] = @ + ptr_size]

\* CoalesceLoop that moves past the merged block after every merge
RECURSIVE CoalesceLoopAdvances(_, _, _)
CoalesceLoopAdvances(m, ptr, pb) ==
    IF m[ptr] = EndMark
    THEN m
    ELSE LET ptr_size == BlockSize(m[ptr])
         IN  IF ABit(m[ptr]) = 1
             THEN CoalesceLoopAdvances(m, ptr + ptr_size, pb)
             ELSE LET next == ptr + ptr_size
                  IN  IF ABit(m[next]) = 1
                      THEN CoalesceLoopAdvances(m, next, pb)
                      ELSE CoalesceLoopAdvances(Merge(m, ptr, ptr_size, next, pb),
                                                next + BlockSize(m[next]), pb)

\* CoalesceLoop that returns after its first merge
RECURSIVE CoalesceLoopOnce(_, _, _)
CoalesceLoopOnce(m, ptr, pb) ==
    IF m[ptr] = EndMark
    THEN m
    ELSE LET ptr_size == BlockSize(m[ptr])
         IN  IF ABit(m[ptr]) = 1
             THEN CoalesceLoopOnce(m, ptr + ptr_size, pb)
             ELSE LET next == ptr + ptr_size
                  IN  IF ABit(m[next]) = 1
                      THEN CoalesceLoopOnce(m, next, pb)
                      ELSE Merge(m, ptr, ptr_size, next, pb)

\* CoalesceLoop that merges with every successor that is not the end mark
RECURSIVE CoalesceLoopIgnoresABit(_, _, _)
CoalesceLoopIgnoresABit(m, ptr, pb) ==
    IF m[ptr] = EndMark
    THEN m
    ELSE LET ptr_size == BlockSize(m[ptr])
         IN  IF ABit(m[ptr]) = 1
             THEN CoalesceLoopIgnoresABit(m, ptr + ptr_size, pb)
             ELSE LET next == ptr + ptr_size
                  IN  IF m[next] = EndMark
                      THEN CoalesceLoopIgnoresABit(m, next, pb)
                      ELSE CoalesceLoopIgnoresABit(Merge(m, ptr, ptr_size, next, pb), ptr, pb)

\* the while loop of coalesce, from ptr to the end mark
RECURSIVE CoalesceLoop(_, _, _)
CoalesceLoop(m, ptr, pb) ==
    IF m[ptr] = EndMark
    THEN m
    ELSE LET ptr_size == BlockSize(m[ptr])
         IN  IF ABit(m[ptr]) = 1
             THEN CoalesceLoop(m, ptr + ptr_size, pb)
             ELSE LET next == ptr + ptr_size
                  IN  IF ABit(m[next]) = 1
                      THEN CoalesceLoop(m, next, pb)
                      ELSE CoalesceLoop(Merge(m, ptr, ptr_size, next, pb), ptr, pb)

\* the while loop of myAlloc run for at most `fuel' iterations: whether it
\* reached the end mark, and the iterations it took
RECURSIVE ScanRun(_, _, _, _)
ScanRun(m, current, size, fuel) ==
    IF current \notin DOMAIN m THEN [done |-> FALSE, steps |-> 0]
    ELSE IF m[current] = EndMark THEN [done |-> TRUE, steps |-> 0]
    ELSE IF fuel = 0 THEN [done |-> FALSE, steps |-> 0]
    ELSE LET r == ScanRun(m, current + BlockSize(m[current]), size, fuel - 1)
         IN  [done |-> r.done, steps |-> r.steps + 1]

\* the while loop of coalesce run for at most `fuel' iterations: whether it
\* reached the end mark, the iterations and the merges it took, and the region
\* it left
RECURSIVE CoalesceRun(_, _, _, _)
CoalesceRun(m, ptr, pb, fuel) ==
    IF ptr \notin DOMAIN m THEN [done |-> FALSE, steps |-> 0, merges |-> 0, mem |-> m]
    ELSE IF m[ptr] = EndMark THEN [done |-> TRUE, steps |-> 0, merges |-> 0, mem |-> m]
    ELSE IF fuel = 0 THEN [done |-> FALSE, steps |-> 0, merges |-> 0, mem |-> m]
    ELSE LET ptr_size == BlockSize(m[ptr])
             next == ptr + ptr_size
             merging == ABit(m[ptr]) = 0 /\ next \in DOMAIN m /\ ABit(m[next]) = 0
             r == IF ABit(m[ptr]) = 1 THEN CoalesceRun(m, ptr + ptr_size, pb, fuel - 1)
                  ELSE IF next \notin DOMAIN m
                  THEN [done |-> FALSE, steps |-> 0, merges |-> 0, mem |-> m]
                  ELSE IF ABit(m[next]) = 1 THEN CoalesceRun(m, next, pb, fuel - 1)
                  ELSE CoalesceRun(Merge(m, ptr, ptr_size, next, pb), ptr, pb, fuel - 1)
         IN  [done |-> r.done,
              steps |-> r.steps + 1,
              merges |-> r.merges + (IF merging THEN 1 ELSE 0),
              mem |-> r.mem]

coalesce ==
    /\ heapStart # NULL
    /\ mem' = CoalesceLoop(mem, heapStart, ptrBytes)
    /\ \A a \in DOMAIN mem' : mem'[a] <= allocsize + MaxDrift
    /\ call' = [op |-> "coalesce", arg |-> 0, ret |-> 1]
    /\ pre' = Now
    /\ trail' = CoalesceTrail
    /\ UNCHANGED <<heapStart, allocsize, allocated_once, ptrBytes, live, freed>>

(* --------------------------- specification ----------------------------- *)

Init ==
    /\ heapStart = NULL
    /\ allocsize = 0
    /\ allocated_once = 0
    /\ mem = <<>>
    /\ ptrBytes \in PointerSizes
    /\ live = {}
    /\ freed = {}
    /\ call = [op |-> "none", arg |-> 0, ret |-> 0]
    /\ pre = Snapshot(NULL, 0, 0, <<>>, {}, {})
    /\ trail = NoTrail

\* arguments of myAlloc: non-positive sizes, the payload sizes on both sides of
\* every rounding step, the whole region and one byte more
AllocArgs ==
    {0 - 1, 0, 1, 5, allocsize, allocsize + 1}
        \cup {n \in 1..allocsize : n % 8 = 4}

\* arguments of myFree: NULL, addresses that are not multiples of 8 (the first
\* header, the end mark, an odd address), and every multiple of 8 from below
\* the mapping to just above the end mark
FreeArgs ==
    {NULL, heapStart, heapStart + 1, heapStart + allocsize}
        \cup {a \in (heapStart - 12)..(heapStart + allocsize + 4) : a % 8 = 0}

Next ==
    \/ \E s \in RegionSizes : myInit(s)
    \/ \E size \in AllocArgs : myAlloc(size)
    \/ \E ptr \in FreeArgs : myFree(ptr)
    \/ coalesce

Spec == Init /\ [][Next]_vars

Initialized == heapStart # NULL

\* the blocks of the current region and of the region before the last call
Cur == Blocks(mem, heapStart)
Old == Blocks(pre.mem, pre.heapStart)

\* the free blocks of region m
FreeSet(m, hs) == {b \in BlockSet(m, hs) : ABit(m[b]) = 0}

(* -------------------------------- claims ------------------------------- *)

\* C1  Conservation: once myInit succeeded, the walk from heapStart by header
\* sizes stops at the end mark (value 1) exactly at heapStart + allocsize, and
\* the sizes of all blocks, free and allocated, add up to allocsize.
Conservation ==
    Initialized =>
        /\ WalkEnd(mem, heapStart) = heapStart + allocsize
        /\ mem[heapStart + allocsize] = EndMark
        /\ SumSizes(mem, Cur) = allocsize

\* C1 witness: a split, a free and a merge have all left their mark: coalesce
\* has just merged blocks and the region still holds several blocks
ConservationWitness ==
    /\ call.op = "coalesce"
    /\ Len(Cur) < Len(Old)
    /\ Len(Cur) >= 2

\* C2  Prev-alloc consistency: the p-bit of every block that has a predecessor
\* equals the a-bit of that predecessor, and the p-bit of the first block is 1.
PrevAllocConsistent ==
    Initialized =>
        /\ PBit(mem[heapStart]) = 1
        /\ LET cur == Cur
           IN  \A i \in 1..(Len(cur) - 1) : PBit(mem[cur[i + 1]]) = ABit(mem[cur[i]])

\* C2 witness: a successful myFree has cleared the p-bit of a successor block
PrevAllocWitness ==
    /\ call.op = "myFree"
    /\ call.ret = 0
    /\ \E i \in 1..(Len(Cur) - 1) :
        /\ Cur[i] = call.arg - HeaderSize
        /\ PBit(pre.mem[Cur[i + 1]]) = 1
        /\ PBit(mem[Cur[i + 1]]) = 0

\* C3  Header/footer agreement: the size of every block is a positive multiple
\* of 8, and the last word of every free block holds that size without flags.
HeaderFooterAgree ==
    Initialized =>
        \A i \in 1..Len(Cur) :
            /\ BlockSize(mem[Cur[i]]) > 0
            /\ BlockSize(mem[Cur[i]]) % 8 = 0
            /\ ABit(mem[Cur[i]]) = 0 =>
                   mem[Cur[i] + BlockSize(mem[Cur[i]]) - HeaderSize] = BlockSize(mem[Cur[i]])

\* the needed block size as the claims state it: the least multiple of 8 that
\* is at least n + 4
Needed(n) == CHOOSE k \in {8 * i : i \in 0..(n + 4)} : k >= n + 4 /\ k - 8 < n + 4

\* the free blocks of the region before the last call that can hold `need' bytes
Candidates(need) ==
    {b \in FreeSet(pre.mem, pre.heapStart) : BlockSize(pre.mem[b]) >= need}

\* the last call was a myAlloc that returned an address
AllocOk == call.op = "myAlloc" /\ call.ret # NULL

\* the last call left the globals and every word of the region as they were
NothingChanged ==
    /\ mem = pre.mem
    /\ heapStart = pre.heapStart
    /\ allocsize = pre.allocsize
    /\ allocated_once = pre.allocated_once

\* C4  Live allocations are freed only once: myFree(p) returns -1 and changes
\* nothing when p was freed and not returned by myAlloc since; and myFree(p)
\* returns 0 only if p is the payload address of a block that is allocated.
FreedOnlyOnce ==
    call.op = "myFree" =>
        /\ call.arg \in pre.freed => (call.ret = 0 - 1 /\ NothingChanged)
        /\ call.ret = 0 =>
               /\ call.arg - HeaderSize \in BlockSet(pre.mem, pre.heapStart)
               /\ ABit(pre.mem[call.arg - HeaderSize]) = 1
               /\ call.arg \in pre.live

\* C4 witness: p was freed, coalesce merged its block away, another allocation
\* now covers its old header, and p is passed to myFree again
FreedOnlyOnceWitness ==
    /\ call.op = "myFree"
    /\ call.ret = 0 - 1
    /\ call.arg \in pre.freed
    /\ call.arg - HeaderSize \notin BlockSet(mem, heapStart)
    /\ \E b \in BlockSet(mem, heapStart) :
        /\ ABit(mem[b]) = 1
        /\ b < call.arg - HeaderSize
        /\ call.arg - HeaderSize < b + BlockSize(mem[b])

\* C5  Best fit: a successful myAlloc(n) allocates at a free block that can
\* hold the needed size, no free block that can hold it is smaller, and no
\* free block of the same size that can hold it lies at a lower address.
BestFitChosen ==
    AllocOk =>
        /\ call.ret - HeaderSize \in Candidates(Needed(call.arg))
        /\ \A b \in Candidates(Needed(call.arg)) :
            \/ BlockSize(pre.mem[call.ret - HeaderSize]) < BlockSize(pre.mem[b])
            \/ /\ BlockSize(pre.mem[call.ret - HeaderSize]) = BlockSize(pre.mem[b])
               /\ call.ret - HeaderSize <= b

\* C5 witness: a larger candidate at a lower address was passed over for a
\* smaller one behind it
BestFitWitness ==
    /\ AllocOk
    /\ \E b \in Candidates(Needed(call.arg)) :
        /\ b < call.ret - HeaderSize
        /\ BlockSize(pre.mem[b]) > BlockSize(pre.mem[call.ret - HeaderSize])

\* C6  Splitting: when the chosen block is larger than needed, it becomes an
\* allocated block of exactly the needed size (a-bit 1, p-bit kept) followed by
\* a new free block of the remainder (a-bit 0, p-bit 1, footer = remainder),
\* the remainder is at least 8, and no allocation is larger than needed.
SplitCorrect ==
    AllocOk =>
        LET best == call.ret - HeaderSize
            need == Needed(call.arg)
            old == BlockSize(pre.mem[best])
        IN  /\ BlockSize(mem[best]) = need
            /\ old > need =>
                /\ mem[best] = need + 1 + 2 * PBit(pre.mem[best])
                /\ old - need >= 8
                /\ mem[best + need] = (old - need) + 2
                /\ mem[best + old - HeaderSize] = old - need
                /\ BlockSet(mem, heapStart) =
                       BlockSet(pre.mem, pre.heapStart) \cup {best + need}
                /\ best + need \notin BlockSet(pre.mem, pre.heapStart)

\* C6 witness: a block in the middle of the region was split
SplitWitness ==
    /\ AllocOk
    /\ BlockSize(pre.mem[call.ret - HeaderSize]) > Needed(call.arg)
    /\ call.ret - HeaderSize # heapStart
    /\ Len(Cur) = Len(Old) + 1

\* C7  Exact fit: when the chosen block has exactly the needed size, its a-bit
\* becomes 1 with size and p-bit unchanged, the p-bit of its successor becomes
\* 1 unless the successor is the end mark, which stays 1, no block is created,
\* and the returned address is 4 bytes past the header of that block.
ExactFitCorrect ==
    AllocOk =>
        LET best == call.ret - HeaderSize
            old == BlockSize(pre.mem[best])
            succ == best + old
        IN  old = Needed(call.arg) =>
                /\ best \in BlockSet(pre.mem, pre.heapStart)
                /\ mem[best] = pre.mem[best] + 1
                /\ ABit(mem[best]) = 1
                /\ IF pre.mem[succ] = EndMark
                   THEN mem[succ] = EndMark
                   ELSE /\ PBit(mem[succ]) = 1
                        /\ BlockSize(mem[succ]) = BlockSize(pre.mem[succ])
                        /\ ABit(mem[succ]) = ABit(pre.mem[succ])
                /\ Cur = Old
                /\ \A a \in DOMAIN mem \ {best, succ} : mem[a] = pre.mem[a]

\* C7 witness: an exact fit whose successor is a block, not the end mark
ExactFitWitness ==
    /\ AllocOk
    /\ BlockSize(pre.mem[call.ret - HeaderSize]) = Needed(call.arg)
    /\ call.ret - HeaderSize + Needed(call.arg) \in BlockSet(mem, heapStart)

\* C8  Allocation failure: myAlloc(n) returns NULL exactly when n <= 0 or no
\* free block can hold the needed size, and then changes no word and no global.
AllocFailure ==
    call.op = "myAlloc" =>
        /\ call.ret = NULL <=> (call.arg <= 0 \/ Candidates(Needed(call.arg)) = {})
        /\ call.ret = NULL => NothingChanged

\* C8 witness: a positive request that fits the region fails although the free
\* blocks together are large enough
AllocFailureWitness ==
    /\ call.op = "myAlloc"
    /\ call.ret = NULL
    /\ call.arg > 0
    /\ Needed(call.arg) <= allocsize
    /\ Cardinality(FreeSet(mem, heapStart)) >= 2

\* C9  Free precondition failures: myFree(p) returns -1 and changes nothing
\* when p is NULL, is not a multiple of 8, lies outside
\* [heapStart, heapStart + allocsize], or the header before p has a-bit 0.
FreeFailure ==
    (/\ call.op = "myFree"
     /\ \/ call.arg = NULL
        \/ call.arg % 8 # 0
        \/ call.arg < pre.heapStart
        \/ call.arg > pre.heapStart + pre.allocsize
        \/ /\ call.arg - HeaderSize \in DOMAIN pre.mem
           /\ ABit(pre.mem[call.arg - HeaderSize]) = 0)
    => (call.ret = 0 - 1 /\ NothingChanged)

\* C9 witness: myFree of the payload address of a block that is free
FreeFailureWitness ==
    /\ call.op = "myFree"
    /\ call.ret = 0 - 1
    /\ call.arg - HeaderSize \in FreeSet(mem, heapStart)
    /\ call.arg \in pre.freed

\* C10  After a coalesce call no two address-adjacent blocks are both free.
NoFreePairAfterCoalesce ==
    call.op = "coalesce" => ~HasFreePair(mem, heapStart)

\* C10 witness: coalesce ran on a region with three free blocks in a row
NoFreePairWitness ==
    /\ call.op = "coalesce"
    /\ \E i \in 1..(Len(Old) - 2) :
        /\ ABit(pre.mem[Old[i]]) = 0
        /\ ABit(pre.mem[Old[i + 1]]) = 0
        /\ ABit(pre.mem[Old[i + 2]]) = 0

\* blocks i..j of the region before the last call are a maximal run of free
\* blocks
FreeRun(i, j) ==
    /\ i <= j
    /\ \A k \in i..j : ABit(pre.mem[Old[k]]) = 0
    /\ i = 1 \/ ABit(pre.mem[Old[i - 1]]) = 1
    /\ j = Len(Old) \/ ABit(pre.mem[Old[j + 1]]) = 1

\* the sizes of blocks i..j of the region before the last call, added up
RunSize(i, j) == SumSizes(pre.mem, SubSeq(Old, i, j))

\* C11  Coalesce result: coalesce replaces every maximal run of two or more
\* free blocks by one free block at the address of the first, whose size is the
\* sum of the sizes, whose header keeps a-bit 0 and the p-bit of the first
\* block, and whose footer at the tail of the run holds the merged size.
CoalesceResult ==
    call.op = "coalesce" =>
        \A i \in 1..Len(Old), j \in 1..Len(Old) :
            (FreeRun(i, j) /\ i < j) =>
                /\ Old[i] \in BlockSet(mem, heapStart)
                /\ \A k \in (i + 1)..j : Old[k] \notin BlockSet(mem, heapStart)
                /\ mem[Old[i]] = RunSize(i, j) + 2 * PBit(pre.mem[Old[i]])
                /\ mem[Old[i] + RunSize(i, j) - HeaderSize] = RunSize(i, j)

\* the block list of region m as the claims read it: for every block its
\* address, its header word and, when it is free, its footer word
BlockView(m, hs) ==
    LET bs == Blocks(m, hs)
    IN  [i \in 1..Len(bs) |->
            [addr |-> bs[i],
             header |-> m[bs[i]],
             footer |-> IF ABit(m[bs[i]]) = 0
                        THEN m[bs[i] + BlockSize(m[bs[i]]) - HeaderSize]
                        ELSE 0]]

\* C12  Round trip: from a state with no two adjacent free blocks, a successful
\* myAlloc(n), myFree of the returned address and coalesce leave the same block
\* list (addresses, sizes, flags, footers) as before; a fresh region is again
\* one free block of the usable size.
RoundTrip ==
    (trail.kind = "trip" /\ ~HasFreePair(trail.start, heapStart)) =>
        BlockView(mem, heapStart) = BlockView(trail.start, heapStart)

\* C13  Idempotence of coalesce: a coalesce call that directly follows a
\* coalesce call leaves the block list as the first call left it and changes
\* no header and no footer.
CoalesceIdempotent ==
    trail.kind = "twice" =>
        /\ BlockView(mem, heapStart) = BlockView(pre.mem, heapStart)
        /\ mem = pre.mem

\* C13 witness: the first of the two coalesce calls merged blocks and left
\* free and allocated blocks behind
CoalesceIdempotentWitness ==
    /\ trail.kind = "twice"
    /\ Len(Blocks(trail.start, heapStart)) > Len(Cur)
    /\ Len(Cur) >= 2

\* C14  Effect of a successful myFree(p): the a-bit of p's block is cleared,
\* the p-bit of its successor is cleared unless that is the end mark, the last
\* word of the block holds its size, and nothing is merged: the blocks are the
\* same, and every other block keeps its address, size and a-bit.
FreeEffect ==
    (call.op = "myFree" /\ call.ret = 0) =>
        LET header == call.arg - HeaderSize
            size == BlockSize(pre.mem[header])
            succ == header + size
        IN  /\ mem[header] = pre.mem[header] - 1
            /\ ABit(mem[header]) = 0
            /\ IF pre.mem[succ] = EndMark
               THEN mem[succ] = EndMark
               ELSE /\ PBit(mem[succ]) = 0
                    /\ BlockSize(mem[succ]) = BlockSize(pre.mem[succ])
            /\ mem[header + size - HeaderSize] = size
            /\ Cur = Old
            /\ \A b \in BlockSet(mem, heapStart) \ {header} :
                /\ BlockSize(mem[b]) = BlockSize(pre.mem[b])
                /\ ABit(mem[b]) = ABit(pre.mem[b])

\* C14 witness: the freed block lies between two free blocks, and all three
\* are still blocks
FreeEffectWitness ==
    /\ call.op = "myFree"
    /\ call.ret = 0
    /\ \E i \in 2..(Len(Cur) - 1) :
        /\ Cur[i] = call.arg - HeaderSize
        /\ ABit(mem[Cur[i - 1]]) = 0
        /\ ABit(mem[Cur[i + 1]]) = 0

\* C15  Every address returned by a successful myAlloc is a multiple of 8 and
\* lies strictly inside the usable region; the base of the mapping is page
\* aligned and heapStart is 4 bytes above it.
AllocAligned ==
    /\ Initialized => (heapStart - HeaderSize) % pagesize = 0
    /\ AllocOk =>
        /\ call.ret % 8 = 0
        /\ heapStart < call.ret
        /\ call.ret < heapStart + allocsize

\* C15 witness: the block at the very end of the region was returned, after
\* an earlier allocation had been freed
AllocAlignedWitness ==
    /\ AllocOk
    /\ call.ret + HeaderSize = heapStart + allocsize
    /\ pre.freed # {}

\* C16  Initialization failure is atomic: a myInit call that returns -1 (a
\* second initialization, a size <= 0, or the region provider failing) leaves
\* heapStart, allocsize, the initialized-once flag and the region unchanged.
InitFailureAtomic ==
    (call.op = "myInit" /\ call.ret = 0 - 1) => NothingChanged

\* C17  Coalescing is delayed: myAlloc and myFree never decrease the number of
\* blocks, only coalesce merges; and a request that failed although a run of
\* adjacent free blocks was large enough succeeds when it is repeated right
\* after a coalesce call.
DelayedCoalescing ==
    /\ call.op \in {"myAlloc", "myFree"} => Len(Cur) >= Len(Old)
    /\ (/\ trail.kind = "retried"
        /\ HasFreeRun(trail.start, heapStart, Needed(trail.arg)))
       => call.ret # NULL

\* C17 witness: myAlloc(n) returned NULL on a region with a large enough run
\* of free blocks, coalesce was called, and the same myAlloc(n) succeeded
DelayedCoalescingWitness ==
    /\ trail.kind = "retried"
    /\ HasFreeRun(trail.start, heapStart, Needed(trail.arg))
    /\ call.op = "myAlloc"
    /\ call.arg = trail.arg
    /\ call.ret # NULL
    /\ Len(Old) < Len(Blocks(trail.start, heapStart))

\* the bytes a caller may use at the live address p: from p to the end of
\* the block whose header is 4 bytes before p
Payload(m, p) == p..(p - HeaderSize + BlockSize(m[p - HeaderSize]) - 1)

\* C18  Live allocations never overlap: every live address is the payload
\* address of an allocated block that is at least 4 bytes larger than the
\* request and keeps its size while live, the payloads of two live addresses
\* are disjoint, and no payload contains a word of a header or the end mark.
LiveDisjoint ==
    Initialized =>
        /\ LET bs == BlockSet(mem, heapStart)
           IN  \A p \in live :
                   /\ p - HeaderSize \in bs
                   /\ ABit(mem[p - HeaderSize]) = 1
        /\ AllocOk => BlockSize(mem[call.ret - HeaderSize]) - HeaderSize >= call.arg
        /\ \A p \in live \cap pre.live :
            BlockSize(mem[p - HeaderSize]) = BlockSize(pre.mem[p - HeaderSize])
        /\ \A p1 \in live, p2 \in live :
            p1 # p2 => Payload(mem, p1) \cap Payload(mem, p2) = {}
        /\ \A p \in live, b \in BlockSet(mem, heapStart) \cup {heapStart + allocsize} :
            Payload(mem, p) \cap (b..(b + HeaderSize - 1)) = {}

\* C18 witness: two live allocations, the second one returned for a request
\* that fills its block, in a block that an earlier allocation had used
LiveDisjointWitness ==
    /\ AllocOk
    /\ Cardinality(live) >= 2
    /\ call.arg = BlockSize(mem[call.ret - HeaderSize]) - HeaderSize
    /\ call.ret \in pre.freed

\* C19  Allocated blocks are stable: a block that is live before and after a
\* call keeps its header address, its size and its a-bit; and coalesce leaves
\* every word of an allocated block or of a free block without a free
\* neighbour as it was.
AllocatedStable ==
    LET bs == BlockSet(mem, heapStart)
        old == Old
    IN  /\ \A p \in live \cap pre.live :
            /\ p - HeaderSize \in bs
            /\ BlockSize(mem[p - HeaderSize]) = BlockSize(pre.mem[p - HeaderSize])
            /\ ABit(mem[p - HeaderSize]) = 1
        /\ call.op = "coalesce" =>
            \A i \in 1..Len(old) :
                (ABit(pre.mem[old[i]]) = 1 \/ FreeRun(i, i)) =>
                    /\ old[i] \in bs
                    /\ \A a \in DOMAIN mem :
                        (old[i] <= a /\ a < old[i] + BlockSize(pre.mem[old[i]]))
                            => mem[a] = pre.mem[a]

\* C19 witness: coalesce merged free blocks next to a live allocation
AllocatedStableWitness ==
    /\ call.op = "coalesce"
    /\ Len(Cur) < Len(Old)
    /\ live # {}
    /\ live = pre.live

\* the iterations granted to a loop over a region of usable size `as': twice
\* the number of 8-byte blocks that fit
Fuel(as) == 2 * (as \div 8)

\* C20  Termination: once myInit succeeded, the scan of myAlloc reaches the end
\* mark after one iteration per block, and the loop of coalesce reaches the end
\* mark after at most (number of blocks - 1) merges and as many iterations as
\* blocks and merges together; a coalesce call returns 1.
LoopsTerminate ==
    /\ call.op = "coalesce" =>
        /\ call.ret = 1
        /\ CoalesceRun(pre.mem, heapStart, ptrBytes, Fuel(allocsize)).merges
               = Len(Old) - Len(Cur)
    /\ Initialized =>
        LET n == Len(Cur)
        IN  /\ \A size \in AllocArgs :
                LET r == ScanRun(mem, heapStart, NeededSize(size), Fuel(allocsize))
                IN  r.done /\ r.steps = n
            /\ LET r == CoalesceRun(mem, heapStart, ptrBytes, Fuel(allocsize))
               IN  /\ r.done
                   /\ r.merges <= n - 1
                   /\ r.steps <= n + r.merges
                   /\ r.mem = CoalesceLoop(mem, heapStart, ptrBytes)

\* C20 witness: a coalesce call merged a region of three free blocks into one,
\* two merges without advancing
LoopsTerminateWitness ==
    /\ call.op = "coalesce"
    /\ Len(Old) >= 3
    /\ Len(Cur) = 1
    /\ CoalesceRun(pre.mem, heapStart, ptrBytes, Fuel(allocsize)).merges = Len(Old) - 1

====
